---- MODULE Spec2Model ----
(***************************************************************************)
(* Bank reconciliation (src/Code.js): the matching engine                  *)
(* reconcileMovements with its scorer, and the manual-override store       *)
(* written by resolveConflictsBatch under the document lock.               *)
(*                                                                         *)
(* Conventions of the model                                                *)
(*  - a string is a sequence of one-character strings;                     *)
(*  - a date is a whole number of days (getTime() is injective on it);     *)
(*  - an amount is an integer number of thousandths, so that rounding to   *)
(*    two decimals (Math.round(a * 100) / 100) is not the identity;        *)
(*  - a score is an exact rational <<numerator, denominator>>: the model   *)
(*    does not reproduce binary floating-point rounding.                   *)
(***************************************************************************)
EXTENDS Integers, Sequences, FiniteSets, TLC

(***************************************************************************)
(* Bounds of the model.                                                    *)
(***************************************************************************)
MaxEntries == 2
MaxRecords == 3
NCalls == 2
MaxCandidates == 6
MaxLen == 3
MaxDiff == 4

\* an empty cell, an unset property, "nothing returned": a present value v is
\* a rational <<n, d>> or, for a sheet cell, <<v>>
NULL == <<>>

(***************************************************************************)
(* Exact rationals.                                                        *)
(***************************************************************************)
RECURSIVE Gcd(_, _)
Gcd(a, b) == IF b = 0 THEN a ELSE Gcd(b, a % b)

Abs(x) == IF x < 0 THEN -x ELSE x

Max(a, b) == IF a >= b THEN a ELSE b

Min(a, b) == IF a <= b THEN a ELSE b

Rat(n, d) ==
  IF n = 0 THEN <<0, 1>>
  ELSE LET g == Gcd(Abs(n), d) IN <<n \div g, d \div g>>

RAdd(a, b) == Rat(a[1] * b[2] + b[1] * a[2], a[2] * b[2])

RSub(a, b) == Rat(a[1] * b[2] - b[1] * a[2], a[2] * b[2])

RMul(a, b) == Rat(a[1] * b[1], a[2] * b[2])

RLt(a, b) == a[1] * b[2] < b[1] * a[2]

RLe(a, b) == a[1] * b[2] <= b[1] * a[2]

RZero == <<0, 1>>

ROne == <<1, 1>>

(***************************************************************************)
(* Characters.                                                             *)
(***************************************************************************)
UpperCase == <<"A", "B", "C", "D", "E", "F", "G", "H", "I", "J", "K", "L", "M",
               "N", "O", "P", "Q", "R", "S", "T", "U", "V", "W", "X", "Y", "Z">>

LowerCase == <<"a", "b", "c", "d", "e", "f", "g", "h", "i", "j", "k", "l", "m",
               "n", "o", "p", "q", "r", "s", "t", "u", "v", "w", "x", "y", "z">>

Digits == {"0", "1", "2", "3", "4", "5", "6", "7", "8", "9"}

Range(s) == {s[i] : i \in DOMAIN s}

AlnumChars == Range(UpperCase) \cup Range(LowerCase) \cup Digits

IsAlnum(c) == c \in AlnumChars

IsWordChar(c) == IsAlnum(c) \/ c = "_"

IsSpace(c) == c \in {" ", "\t", "\n"}

LowerOf == [u \in Range(UpperCase) |->
              LowerCase[CHOOSE i \in DOMAIN UpperCase : UpperCase[i] = u]]

toLowerCase(c) == IF c \in DOMAIN LowerOf THEN LowerOf[c] ELSE c

(***************************************************************************)
(* String helpers of the JavaScript runtime.                               *)
(***************************************************************************)
includes(s, t) ==
  \E i \in 0..(Len(s) - Len(t)) : SubSeq(s, i + 1, i + Len(t)) = t

endsWith(s, t) ==
  Len(t) <= Len(s) /\ SubSeq(s, Len(s) - Len(t) + 1, Len(s)) = t

ListIncludes(list, x) == \E i \in DOMAIN list : list[i] = x

(***************************************************************************)
(* normalizeString: lower case, every character that is not \w or \s       *)
(* becomes a space, runs of white space collapse to one space, trim.       *)
(***************************************************************************)
RECURSIVE CollapseSpaces(_)
CollapseSpaces(s) ==
  IF s = <<>> THEN <<>>
  ELSE IF IsSpace(s[1])
       THEN IF Len(s) >= 2 /\ IsSpace(s[2])
            THEN CollapseSpaces(Tail(s))
            ELSE <<" ">> \o CollapseSpaces(Tail(s))
       ELSE <<s[1]>> \o CollapseSpaces(Tail(s))

Trim(s) ==
  LET nonSpace == {i \in DOMAIN s : ~IsSpace(s[i])}
  IN IF nonSpace = {} THEN <<>>
     ELSE LET lo == CHOOSE i \in nonSpace : \A j \in nonSpace : i <= j
              hi == CHOOSE i \in nonSpace : \A j \in nonSpace : j <= i
          IN SubSeq(s, lo, hi)

normalizeString(str) ==
  LET lowered == [i \in DOMAIN str |-> toLowerCase(str[i])]
      spaced == [i \in DOMAIN str |->
                   IF IsWordChar(lowered[i]) \/ IsSpace(lowered[i])
                   THEN lowered[i] ELSE " "]
  IN Trim(CollapseSpaces(spaced))

(***************************************************************************)
(* extractNumbers: the maximal digit runs, leading zeros stripped.         *)
(***************************************************************************)
RECURSIVE StripLeadingZeros(_)
StripLeadingZeros(n) ==
  IF n # <<>> /\ n[1] = "0" THEN StripLeadingZeros(Tail(n)) ELSE n

RECURSIVE DigitRuns(_, _)
DigitRuns(s, run) ==
  IF s = <<>> THEN (IF run = <<>> THEN <<>> ELSE <<run>>)
  ELSE IF s[1] \in Digits THEN DigitRuns(Tail(s), Append(run, s[1]))
       ELSE (IF run = <<>> THEN <<>> ELSE <<run>>) \o DigitRuns(Tail(s), <<>>)

extractNumbers(str) ==
  LET matches == DigitRuns(str, <<>>)
  IN [i \in DOMAIN matches |-> StripLeadingZeros(matches[i])]

(***************************************************************************)
(* split(/\s+/) of a normalized string.                                    *)
(***************************************************************************)
RECURSIVE SplitRuns(_, _)
SplitRuns(s, tok) ==
  IF s = <<>> THEN <<tok>>
  ELSE IF IsSpace(s[1])
       THEN IF Len(s) >= 2 /\ IsSpace(s[2])
            THEN SplitRuns(Tail(s), tok)
            ELSE <<tok>> \o SplitRuns(Tail(s), <<>>)
       ELSE SplitRuns(Tail(s), Append(tok, s[1]))

splitWhitespace(s) == SplitRuns(s, <<>>)

(***************************************************************************)
(* levenshteinDistance: the matrix of the code, row by row.                *)
(***************************************************************************)
Min3(a, b, c) == Min(a, Min(b, c))

\* one row of the matrix, each cell computed before the next is started
RECURSIVE LevRow(_, _, _, _, _)
LevRow(str1, ch, prev, j, acc) ==
  IF j > Len(str1) THEN acc
  ELSE LET cell == IF ch = str1[j]
                   THEN prev[j]
                   ELSE Min3(prev[j] + 1, acc[j] + 1, prev[j + 1] + 1)
           row == Append(acc, cell)
       IN IF Len(row) = j + 1 THEN LevRow(str1, ch, prev, j + 1, row) ELSE row

RECURSIVE LevRows(_, _, _, _)
LevRows(str1, str2, i, prev) ==
  IF i > Len(str2) THEN prev
  ELSE LET row == LevRow(str1, str2[i], prev, 1, <<i>>)
       IN IF Len(row) = Len(prev) THEN LevRows(str1, str2, i + 1, row) ELSE row

levenshteinDistance(str1, str2) ==
  LevRows(str1, str2, 1, [j \in 1..(Len(str1) + 1) |-> j - 1])[Len(str1) + 1]

(***************************************************************************)
(* calculateConceptSimilarityCached, on the pre-computed _normalized and   *)
(* _numbers of the two movements.                                          *)
(***************************************************************************)
\* one (num1, num2) pair of the nested loop: the value returned, or NULL
PartialNumberMatch(num1, num2) ==
  IF Len(num1) >= 3 /\ Len(num2) >= 3
  THEN IF includes(num1, num2) \/ includes(num2, num1)
       THEN <<13, 20>>
       ELSE IF Len(num1) >= 4 /\ Len(num2) >= 3
                 /\ (endsWith(num1, num2) \/ endsWith(num2, num1))
            THEN <<7, 10>>
            ELSE NULL
  ELSE NULL

\* the nested for loops: the first pair, numbers1 outer, that returns
PartialNumbersLoop(numbers1, numbers2) ==
  LET hits == {p \in (DOMAIN numbers1) \X (DOMAIN numbers2) :
                 PartialNumberMatch(numbers1[p[1]], numbers2[p[2]]) # NULL}
  IN IF hits = {} THEN NULL
     ELSE LET first == CHOOSE p \in hits : \A q \in hits :
                         p[1] < q[1] \/ (p[1] = q[1] /\ p[2] <= q[2])
          IN PartialNumberMatch(numbers1[first[1]], numbers2[first[2]])

TokenSimilarity(norm1, norm2) ==
  LET tokens1 == splitWhitespace(norm1)
      tokens2 == splitWhitespace(norm2)
      commonTokens == SelectSeq(tokens1, LAMBDA t : ListIncludes(tokens2, t))
  IN IF Len(commonTokens) > 0
     THEN RAdd(<<3, 10>>,
               Rat(4 * Len(commonTokens), 10 * Max(Len(tokens1), Len(tokens2))))
     ELSE IF Len(norm1) < 20 /\ Len(norm2) < 20
          THEN LET distance == levenshteinDistance(norm1, norm2)
                   maxLength == Max(Len(norm1), Len(norm2))
                   ratio == RSub(ROne, Rat(distance, maxLength))
               IN RMul(IF RLt(ratio, RZero) THEN RZero ELSE ratio, <<1, 2>>)
          ELSE RZero

\* the similarity without the rule of line 440 for equal strings
calculateConceptSimilarityCached_NoExactRule(accMovement, bankMovement) ==
  LET norm1 == accMovement._normalized
      norm2 == bankMovement._normalized
  IN IF norm1 = <<>> \/ norm2 = <<>> THEN RZero
     ELSE IF includes(norm1, norm2) \/ includes(norm2, norm1) THEN <<4, 5>>
     ELSE TokenSimilarity(norm1, norm2)

calculateConceptSimilarityCached(accMovement, bankMovement) ==
  LET norm1 == accMovement._normalized
      norm2 == bankMovement._normalized
      numbers1 == accMovement._numbers
      numbers2 == bankMovement._numbers
      commonNumbers == SelectSeq(numbers1, LAMBDA n : ListIncludes(numbers2, n))
  IN IF norm1 = <<>> \/ norm2 = <<>> THEN RZero
     ELSE IF norm1 = norm2 THEN ROne
     ELSE IF includes(norm1, norm2) \/ includes(norm2, norm1) THEN <<4, 5>>
     ELSE IF Len(numbers1) > 0 /\ Len(numbers2) > 0
               /\ Len(commonNumbers) > 0
          THEN RAdd(<<3, 5>>,
                    Rat(3 * Len(commonNumbers),
                        10 * Max(Len(numbers1), Len(numbers2))))
     ELSE IF Len(numbers1) > 0 /\ Len(numbers2) > 0
               /\ PartialNumbersLoop(numbers1, numbers2) # NULL
          THEN PartialNumbersLoop(numbers1, numbers2)
     ELSE TokenSimilarity(norm1, norm2)

(***************************************************************************)
(* calculateMatchScore: date component plus 0.7 x concept similarity.      *)
(* dateDiff is in days; tolerance is CONFIG.DATE_TOLERANCE_DAYS.           *)
(***************************************************************************)
\* a date component that reaches 0 at the tolerance
DateScore_ZeroAtTolerance(dateDiff, tolerance) ==
  IF dateDiff = 0 THEN <<3, 10>>
  ELSE IF dateDiff <= tolerance
       THEN RMul(<<3, 10>>, RSub(ROne, Rat(dateDiff, tolerance)))
       ELSE RZero

DateScore(dateDiff, tolerance) ==
  IF dateDiff = 0 THEN <<3, 10>>
  ELSE IF dateDiff <= tolerance
       THEN RMul(<<3, 10>>, RSub(ROne, Rat(dateDiff, tolerance * 2)))
       ELSE RZero

calculateMatchScore(accMovement, bankMovement, tolerance) ==
  RAdd(DateScore(Abs(accMovement.date - bankMovement.date), tolerance),
       RMul(<<7, 10>>, calculateConceptSimilarityCached(accMovement, bankMovement)))

(***************************************************************************)
(* Loading the source rows.  A raw accounting row is                       *)
(* [date, entry, concept, amount], a raw bank row is                       *)
(* [date, concept, additional, amount]; the date and amount cells are     *)
(* NULL when empty and <<value>> otherwise.                                *)
(***************************************************************************)
\* the value of a cell: a number (an amount in thousandths) or a string
Num(n) == <<"number", n>>

Str(chars) == <<"string", chars>>

\* str.replace(/\./g, '')
RemoveDots(str) == SelectSeq(str, LAMBDA ch : ch # ".")

\* str.replace(',', '.'): the first comma only
ReplaceFirstComma(str) ==
  LET commas == {i \in DOMAIN str : str[i] = ","}
  IN IF commas = {} THEN str
     ELSE [str EXCEPT ![CHOOSE i \in commas : \A j \in commas : i <= j] = "."]

DigitValue(ch) ==
  CASE ch = "0" -> 0 [] ch = "1" -> 1 [] ch = "2" -> 2 [] ch = "3" -> 3
    [] ch = "4" -> 4 [] ch = "5" -> 5 [] ch = "6" -> 6 [] ch = "7" -> 7
    [] ch = "8" -> 8 [] ch = "9" -> 9

RECURSIVE DigitsValue(_)
DigitsValue(digits) ==
  IF digits = <<>> THEN 0
  ELSE 10 * DigitsValue(SubSeq(digits, 1, Len(digits) - 1))
         + DigitValue(digits[Len(digits)])

\* the longest prefix of str made of digits
LeadingDigits(str) ==
  LET stops == {i \in DOMAIN str : str[i] \notin Digits}
  IN IF stops = {} THEN str
     ELSE SubSeq(str, 1, (CHOOSE i \in stops : \A j \in stops : i <= j) - 1)

\* parseFloat: the value of the longest prefix that is a decimal literal
\* (sign, digits, point, digits; exponents and "Infinity" do not occur in
\* the strings of the model), NULL for NaN.  The value is in thousandths,
\* decimals after the third dropped.
parseFloat(str) ==
  LET signed == str # <<>> /\ str[1] \in {"-", "+"}
      body == IF signed THEN Tail(str) ELSE str
      whole == LeadingDigits(body)
      rest == SubSeq(body, Len(whole) + 1, Len(body))
      decimals == IF rest # <<>> /\ rest[1] = "." THEN LeadingDigits(Tail(rest))
                  ELSE <<>>
      padded == SubSeq(decimals \o <<"0", "0", "0">>, 1, 3)
      magnitude == 1000 * DigitsValue(whole) + DigitsValue(padded)
  IN IF whole = <<>> /\ decimals = <<>> THEN NULL
     ELSE IF signed /\ str[1] = "-" THEN <<-magnitude>> ELSE <<magnitude>>

\* the parser without the removal of the thousands separators
parseSpanishNumber_KeepsDots(value) ==
  IF value[1] = "number" THEN value[2]
  ELSE LET parsed == parseFloat(ReplaceFirstComma(Trim(value[2])))
       IN IF parsed = NULL THEN 0 ELSE parsed[1]

\* lines 135-153
parseSpanishNumber(value) ==
  IF value[1] = "number" THEN value[2]
  ELSE LET str == Trim(value[2])
           normalized == ReplaceFirstComma(RemoveDots(str))
           parsed == parseFloat(normalized)
       IN IF parsed = NULL THEN 0 ELSE parsed[1]

RowIsLoaded(row) == row.date # NULL /\ row.amount # NULL

\* `ACC_${dateStr}_${entry}_${amount}`
AccountingId(row) ==
  <<"ACC", row.date[1], row.entry, parseSpanishNumber(row.amount[1])>>

\* an id that counts the row's position in
getAccountingData_PositionalId(sheetRows) ==
  LET rows == SelectSeq(sheetRows, RowIsLoaded)
  IN [index \in DOMAIN rows |->
        [id |-> AccountingId(rows[index]) \o <<index>>,
         date |-> rows[index].date[1],
         entryNumber |-> rows[index].entry,
         concept |-> rows[index].concept,
         amount |-> parseSpanishNumber(rows[index].amount[1]),
         rowNumber |-> index + 1,
         matched |-> FALSE,
         _normalized |-> normalizeString(rows[index].concept),
         _numbers |-> extractNumbers(rows[index].concept)]]

getAccountingData(sheetRows) ==
  LET rows == SelectSeq(sheetRows, RowIsLoaded)
  IN [index \in DOMAIN rows |->
        [id |-> AccountingId(rows[index]),
         date |-> rows[index].date[1],
         entryNumber |-> rows[index].entry,
         concept |-> rows[index].concept,
         amount |-> parseSpanishNumber(rows[index].amount[1]),
         rowNumber |-> index + 1,
         matched |-> FALSE,
         _normalized |-> normalizeString(rows[index].concept),
         _numbers |-> extractNumbers(rows[index].concept)]]

conceptKey(concept) ==
  SelectSeq(SubSeq(concept, 1, Min(20, Len(concept))), IsAlnum)

\* `BANK_${dateStr}_${conceptKey}_${amount}`
BankId(row) ==
  <<"BANK", row.date[1], conceptKey(row.concept), parseSpanishNumber(row.amount[1])>>

getBankData(sheetRows) ==
  LET rows == SelectSeq(sheetRows, RowIsLoaded)
  IN [index \in DOMAIN rows |->
        LET fullConcept == rows[index].concept \o <<" ">> \o rows[index].additional
        IN [id |-> BankId(rows[index]),
            date |-> rows[index].date[1],
            concept |-> rows[index].concept,
            additional |-> rows[index].additional,
            amount |-> parseSpanishNumber(rows[index].amount[1]),
            rowNumber |-> index + 1,
            matched |-> FALSE,
            _normalized |-> normalizeString(fullConcept),
            _numbers |-> extractNumbers(fullConcept)]]

(***************************************************************************)
(* State.                                                                  *)
(*   sheetAcc, sheetBank  the rows of sheet "Origen" (columns A-D, F-J)    *)
(*   userProps            the saved configuration (user properties)        *)
(*   store                document property 'manualMatches': entry id ->   *)
(*                        record id                                        *)
(*   CONFIG               the global CONFIG of the running script          *)
(*   pc, idx              position of the run: "idle", "loop" (forEach at  *)
(*                        entry idx), "done"                               *)
(*   accountingData, bankData, manualMatches, results                      *)
(*                        the locals of reconcileMovements; a movement is  *)
(*                        referred to by its index in its list (object     *)
(*                        identity), results.unmatchedBank is the Set of   *)
(*                        ids during the loop and the filtered list of     *)
(*                        records at the end                               *)
(*   lock                 holder of the document lock, 0 when free         *)
(*   bpc, matches, uniqueMatches, readMatches, result                      *)
(*                        per resolveConflictsBatch call: position,        *)
(*                        argument, de-duplicated pairs, the map read, the *)
(*                        value returned                                   *)
(*   lockOrder            history: the calls in the order they acquired    *)
(*                        the lock                                         *)
(*   outputSheet          what sheet "Salida" holds                        *)
(*   conflictsData        what getConflictsData returned to the sidebar,   *)
(*                        NULL before                                      *)
(*   previous             history: the inputs and the results of the run   *)
(*                        before this one, NULL when there was none        *)
(***************************************************************************)
VARIABLES sheetAcc, sheetBank, userProps, store, CONFIG, pc, idx,
          accountingData, bankData, manualMatches, results,
          lock, bpc, matches, uniqueMatches, readMatches, result, lockOrder,
          outputSheet, conflictsData, previous,
          rpc, rMatch, rRead

sessionVars == <<outputSheet, conflictsData, previous>>

engineVars == <<sheetAcc, sheetBank, userProps, CONFIG, pc, idx,
                accountingData, bankData, manualMatches, results, sessionVars>>

\* the resolveConflict call: its position, its arguments and its parsed copy
\* of the property
resolveVars == <<rpc, rMatch, rRead>>

batchVars == <<lock, bpc, matches, uniqueMatches, readMatches, result, lockOrder,
               resolveVars>>

vars == <<sheetAcc, sheetBank, userProps, store, CONFIG, pc, idx,
          accountingData, bankData, manualMatches, results,
          lock, bpc, matches, uniqueMatches, readMatches, result, lockOrder,
          outputSheet, conflictsData, previous, rpc, rMatch, rRead>>

\* const CONFIG = {...} as every script execution starts with it
DefaultConfig == [DATE_TOLERANCE_DAYS |-> 3, MIN_SIMILARITY_SCORE |-> <<3, 10>>]

EmptyMap == <<>>

EmptyResults ==
  [matched |-> <<>>, conflicts |-> <<>>, unmatchedAccounting |-> <<>>,
   unmatchedBank |-> {}]

(***************************************************************************)
(* reconcileMovements: the indexes (lines 287-304).                        *)
(***************************************************************************)
\* Math.round(amount * 100) / 100, in hundredths (amounts are thousandths)
RoundedAmount(amount) == (amount + 5) \div 10

IndexBank(loaded) ==
  [i \in DOMAIN loaded |->
     [id |-> loaded[i].id, date |-> loaded[i].date,
      concept |-> loaded[i].concept, additional |-> loaded[i].additional,
      amount |-> loaded[i].amount, rowNumber |-> loaded[i].rowNumber,
      matched |-> loaded[i].matched, _normalized |-> loaded[i]._normalized,
      _numbers |-> loaded[i]._numbers,
      _roundedAmount |-> RoundedAmount(loaded[i].amount)]]

Indices(list) == [i \in DOMAIN list |-> i]

\* bankByAmount.get(amountKey) || []
bankByAmount(bank, amountKey) ==
  SelectSeq(Indices(bank), LAMBDA i : bank[i]._roundedAmount = amountKey)

\* bankById.get(id): the last movement set under that id, 0 when undefined
bankById(bank, id) ==
  LET same == {i \in DOMAIN bank : bank[i].id = id}
  IN IF same = {} THEN 0 ELSE CHOOSE i \in same : \A j \in same : j <= i

(***************************************************************************)
(* reconcileMovements: one iteration of accountingData.forEach.            *)
(***************************************************************************)
\* the manual match applied only to a record of the entry's rounded amount
ManualMatchFor_SameAmountOnly(overrides, bank, accMovement) ==
  IF accMovement.id \in DOMAIN overrides
  THEN LET manualMatch == bankById(bank, overrides[accMovement.id])
       IN IF manualMatch # 0 /\ ~bank[manualMatch].matched
               /\ bank[manualMatch]._roundedAmount = RoundedAmount(accMovement.amount)
          THEN manualMatch ELSE 0
  ELSE 0

\* the manual match applied without looking at manualMatch.matched
ManualMatchFor_IgnoresMatched(overrides, bank, accMovement) ==
  IF accMovement.id \in DOMAIN overrides
  THEN bankById(bank, overrides[accMovement.id])
  ELSE 0

\* lines 309-313: the bank movement the manual match applies, 0 when none
ManualMatchFor(overrides, bank, accMovement) ==
  IF accMovement.id \in DOMAIN overrides
  THEN LET manualMatch == bankById(bank, overrides[accMovement.id])
       IN IF manualMatch # 0 /\ ~bank[manualMatch].matched
          THEN manualMatch ELSE 0
  ELSE 0

\* every unmatched bank movement a candidate, whatever its amount
PotentialMatches_AnyAmount(bank, accMovement) ==
  SelectSeq(Indices(bank), LAMBDA i : ~bank[i].matched)

\* lines 335-338
PotentialMatches(bank, accMovement) ==
  SelectSeq(bankByAmount(bank, RoundedAmount(accMovement.amount)),
            LAMBDA i : ~bank[i].matched)

\* scoredMatches.sort((a, b) => b.score - a.score), a stable sort
RECURSIVE SortByScore(_)
SortByScore(list) ==
  IF list = <<>> THEN <<>>
  ELSE LET sorted == SortByScore(SubSeq(list, 1, Len(list) - 1))
           last == list[Len(list)]
           before == SelectSeq(sorted, LAMBDA m : RLe(last.score, m.score))
           after == SelectSeq(sorted, LAMBDA m : RLt(m.score, last.score))
       IN before \o <<last>> \o after

\* lines 347-353
ScoredMatches(bank, accMovement, tolerance) ==
  LET potentialMatches == PotentialMatches(bank, accMovement)
  IN SortByScore([k \in DOMAIN potentialMatches |->
                    [bankMovement |-> potentialMatches[k],
                     score |-> calculateMatchScore(accMovement,
                                                   bank[potentialMatches[k]],
                                                   tolerance)]])

BestScore(scoredMatches) == scoredMatches[1].score

SecondScore(scoredMatches) ==
  IF Len(scoredMatches) >= 2 THEN scoredMatches[2].score ELSE RZero

\* line 358
IsAboveThreshold(scoredMatches, minScore) ==
  RLt(minScore, BestScore(scoredMatches))

\* a margin of 0.2 or more
IsClearWinner_NonStrict(scoredMatches) ==
  Len(scoredMatches) = 1
    \/ RLe(<<1, 5>>, RSub(BestScore(scoredMatches), SecondScore(scoredMatches)))

\* line 359
IsClearWinner(scoredMatches) ==
  Len(scoredMatches) = 1
    \/ RLt(<<1, 5>>, RSub(BestScore(scoredMatches), SecondScore(scoredMatches)))

\* lines 379-386
ConflictReason(scoredMatches, minScore) ==
  IF ~IsAboveThreshold(scoredMatches, minScore) THEN "Baja confianza"
  ELSE IF Len(scoredMatches) > 1 THEN "Multiples candidatos"
  ELSE "Baja confianza"

MarkMatched(bank, i) == [bank EXCEPT ![i].matched = TRUE]

\* lines 315-328 and 364-376: results.matched.push, unmatchedBank.delete
PushMatch(res, match, bankId) ==
  [res EXCEPT !.matched = Append(@, match),
              !.unmatchedBank = @ \ {bankId}]

\* a callback that returns without recording the entry
PushUnmatched_Dropped(res, e) == res

\* line 342
PushUnmatched(res, e) ==
  [res EXCEPT !.unmatchedAccounting = Append(@, e)]

\* lines 388-392
PushConflict(res, conflict) ==
  [res EXCEPT !.conflicts = Append(@, conflict)]

ManualMatchRecord(e, b) ==
  [accounting |-> e, bank |-> b, score |-> ROne,
   autoMatched |-> FALSE, manualMatch |-> TRUE]

AutoMatchRecord(e, b, score) ==
  [accounting |-> e, bank |-> b, score |-> score,
   autoMatched |-> TRUE, manualMatch |-> FALSE]

\* every scored match listed, without the cap
TopCandidates_All(scoredMatches) == scoredMatches

\* line 390: scoredMatches.slice(0, 5)
TopCandidates(scoredMatches) ==
  SubSeq(scoredMatches, 1, Min(5, Len(scoredMatches)))

\* lines 334-393: the automatic part of the callback, for entry e
AutomaticOutcome(bank, accMovement, e, res, config) ==
  LET scoredMatches == ScoredMatches(bank, accMovement, config.DATE_TOLERANCE_DAYS)
  IN IF Len(scoredMatches) = 0
     THEN [results |-> PushUnmatched(res, e), bank |-> bank, matched |-> FALSE]
     ELSE IF IsAboveThreshold(scoredMatches, config.MIN_SIMILARITY_SCORE)
               /\ IsClearWinner(scoredMatches)
     THEN LET bestMatch == scoredMatches[1].bankMovement
          IN [results |-> PushMatch(res,
                            AutoMatchRecord(e, bestMatch, BestScore(scoredMatches)),
                            bank[bestMatch].id),
              bank |-> MarkMatched(bank, bestMatch),
              matched |-> TRUE]
     ELSE [results |-> PushConflict(res,
                         [accounting |-> e,
                          candidates |-> TopCandidates(scoredMatches),
                          reason |-> ConflictReason(scoredMatches,
                                                    config.MIN_SIMILARITY_SCORE)]),
           bank |-> bank,
           matched |-> FALSE]

\* the return of line 330 one brace too low: an entry whose manual match
\* cannot be applied is left unmatched
ProcessMovement_StaleSkipped(overrides, bank, accMovement, e, res, config) ==
  LET manualMatch == ManualMatchFor(overrides, bank, accMovement)
  IN IF manualMatch # 0
     THEN [results |-> PushMatch(res, ManualMatchRecord(e, manualMatch),
                                 bank[manualMatch].id),
           bank |-> MarkMatched(bank, manualMatch),
           matched |-> TRUE]
     ELSE IF accMovement.id \in DOMAIN overrides
     THEN [results |-> PushUnmatched(res, e), bank |-> bank, matched |-> FALSE]
     ELSE AutomaticOutcome(bank, accMovement, e, res, config)

\* lines 307-394: the callback of accountingData.forEach, for entry e.  It
\* gives the new results, the bank movements with their matched flags, and
\* the matched flag of the entry.
ProcessMovement(overrides, bank, accMovement, e, res, config) ==
  LET manualMatch == ManualMatchFor(overrides, bank, accMovement)
  IN IF manualMatch # 0
     THEN [results |-> PushMatch(res, ManualMatchRecord(e, manualMatch),
                                 bank[manualMatch].id),
           bank |-> MarkMatched(bank, manualMatch),
           matched |-> TRUE]
     ELSE AutomaticOutcome(bank, accMovement, e, res, config)

ProcessEntry ==
  /\ pc = "loop"
  /\ idx <= Len(accountingData)
  /\ \E step \in {ProcessMovement(manualMatches, bankData, accountingData[idx],
                                  idx, results, CONFIG)} :
       /\ results' = step.results
       /\ bankData' = step.bank
       /\ accountingData' = [accountingData EXCEPT ![idx].matched = step.matched]
  /\ idx' = idx + 1
  /\ UNCHANGED <<sheetAcc, sheetBank, userProps, store, CONFIG, pc, manualMatches>>
  /\ UNCHANGED <<batchVars, sessionVars>>

\* line 397: bankData.filter(b => results.unmatchedBank.has(b.id))
UnmatchedBankList(bank, unmatchedIds) ==
  SelectSeq(Indices(bank), LAMBDA i : bank[i].id \in unmatchedIds)

FinishRun ==
  /\ pc = "loop"
  /\ idx > Len(accountingData)
  /\ results' = [results EXCEPT
       !.unmatchedBank = UnmatchedBankList(bankData, results.unmatchedBank)]
  /\ pc' = "done"
  /\ UNCHANGED <<sheetAcc, sheetBank, userProps, store, CONFIG, idx,
                 accountingData, bankData, manualMatches>>
  /\ UNCHANGED <<batchVars, sessionVars>>

(***************************************************************************)
(* runReconciliationInternal up to the forEach: the saved configuration    *)
(* (lines 62-69), the rows (75-80), the locals of reconcileMovements       *)
(* (277-304).                                                              *)
(***************************************************************************)
\* Number(userProperties.getProperty(key)) || fallback
NumberOr(prop, fallback) ==
  IF prop = NULL \/ prop[1] = 0 THEN fallback ELSE prop

\* rows kept from an earlier load, matched flags included, instead of rows
\* read again from the sheet
StartRun_ReusesRows ==
  /\ pc = "idle"
  /\ CONFIG' = [DATE_TOLERANCE_DAYS |->
                  NumberOr(userProps.dateToleranceDays,
                           <<CONFIG.DATE_TOLERANCE_DAYS, 1>>)[1],
                MIN_SIMILARITY_SCORE |->
                  NumberOr(userProps.minSimilarityScore,
                           CONFIG.MIN_SIMILARITY_SCORE)]
  /\ accountingData' = getAccountingData(sheetAcc)
  /\ bankData' = IF bankData # <<>> THEN bankData
                 ELSE IndexBank(getBankData(sheetBank))
  /\ results' = [EmptyResults EXCEPT
       !.unmatchedBank = {bankData'[i].id : i \in DOMAIN bankData'}]
  /\ manualMatches' = store
  /\ idx' = 1
  /\ pc' = "loop"
  /\ UNCHANGED <<sheetAcc, sheetBank, userProps, store>>
  /\ UNCHANGED <<batchVars, sessionVars>>

StartRun ==
  /\ pc = "idle"
  /\ CONFIG' = [DATE_TOLERANCE_DAYS |->
                  NumberOr(userProps.dateToleranceDays,
                           <<CONFIG.DATE_TOLERANCE_DAYS, 1>>)[1],
                MIN_SIMILARITY_SCORE |->
                  NumberOr(userProps.minSimilarityScore,
                           CONFIG.MIN_SIMILARITY_SCORE)]
  /\ accountingData' = getAccountingData(sheetAcc)
  /\ bankData' = IndexBank(getBankData(sheetBank))
  /\ results' = [EmptyResults EXCEPT
       !.unmatchedBank = {bankData'[i].id : i \in DOMAIN bankData'}]
  /\ manualMatches' = store
  /\ idx' = 1
  /\ pc' = "loop"
  /\ UNCHANGED <<sheetAcc, sheetBank, userProps, store>>
  /\ UNCHANGED <<batchVars, sessionVars>>

(***************************************************************************)
(* runReconciliationInternal around reconcileMovements: the sheets that    *)
(* are not there (lines 56-58), the results written to sheet "Salida"      *)
(* (line 92), the return (line 96).  pc is "returned" when the run has     *)
(* returned its results and "failed" when it has thrown.                   *)
(***************************************************************************)
\* line 57: a sheet is missing, the run throws before it reads anything
StartFails ==
  /\ pc = "idle"
  /\ pc' = "failed"
  /\ UNCHANGED <<sheetAcc, sheetBank, userProps, store, CONFIG, idx,
                 accountingData, bankData, manualMatches, results>>
  /\ UNCHANGED <<batchVars, sessionVars>>

\* lines 615-875 without an exception, then line 96
OutputResults ==
  /\ pc = "done"
  /\ outputSheet' = "results"
  /\ pc' = "returned"
  /\ UNCHANGED <<sheetAcc, sheetBank, userProps, store, CONFIG, idx,
                 accountingData, bankData, manualMatches, results>>
  /\ UNCHANGED <<batchVars, conflictsData, previous>>

\* lines 620-873: a spreadsheet call of outputReconciliationResults throws,
\* at sheet.clear() (line 623) or at a later write; the catch block logs and
\* throws again, and the run returns nothing
OutputFails ==
  /\ pc = "done"
  /\ outputSheet' \in {outputSheet, "cleared", "headers"}
  /\ pc' = "failed"
  /\ UNCHANGED <<sheetAcc, sheetBank, userProps, store, CONFIG, idx,
                 accountingData, bankData, manualMatches, results>>
  /\ UNCHANGED <<batchVars, conflictsData, previous>>

(***************************************************************************)
(* The other executions of a session.  Every execution starts with the     *)
(* CONFIG of lines 7-29.                                                   *)
(***************************************************************************)
\* the values the configuration dialog can save
ConfigPool ==
  {[dateToleranceDays |-> <<0, 1>>, minSimilarityScore |-> <<0, 1>>],
   [dateToleranceDays |-> <<1, 1>>, minSimilarityScore |-> <<1, 5>>],
   [dateToleranceDays |-> <<2, 1>>, minSimilarityScore |-> <<3, 10>>],
   [dateToleranceDays |-> <<3, 1>>, minSimilarityScore |-> <<1, 10>>]}

\* saveConfig(config), an execution of its own: the CONFIG it updates
\* (lines 1133-1134) ends with it
SaveConfig ==
  /\ pc = "idle"
  /\ \E config \in ConfigPool : userProps' = config
  /\ UNCHANGED <<sheetAcc, sheetBank, store, CONFIG, pc, idx,
                 accountingData, bankData, manualMatches, results>>
  /\ UNCHANGED <<batchVars, sessionVars>>

\* reconcileMovements as one function: the forEach from entry e on, then
\* the final filter.  It gives the results and the bank movements.
RECURSIVE ReconcileFrom(_, _, _, _, _, _)
ReconcileFrom(overrides, acc, bank, e, res, config) ==
  IF e > Len(acc)
  THEN [results |-> [res EXCEPT
                       !.unmatchedBank = UnmatchedBankList(bank, res.unmatchedBank)],
        bank |-> bank]
  ELSE LET step == ProcessMovement(overrides, bank, acc[e], e, res, config)
       IN ReconcileFrom(overrides, acc, step.bank, e + 1, step.results, config)

reconcileMovements(acc, loadedBank, overrides, config) ==
  LET bank == IndexBank(loadedBank)
  IN ReconcileFrom(overrides, acc, bank, 1,
                   [EmptyResults EXCEPT
                      !.unmatchedBank = {bank[i].id : i \in DOMAIN bank}],
                   config)

\* Math.round(c.score * 100)
RoundPercent(score) == (200 * score[1] + score[2]) \div (2 * score[2])

\* lines 967-983 (the formatted dates left out)
ConflictsView(conflicts, acc, bank) ==
  [i \in DOMAIN conflicts |->
     [accounting |-> [id |-> acc[conflicts[i].accounting].id,
                      entry |-> acc[conflicts[i].accounting].entryNumber,
                      concept |-> acc[conflicts[i].accounting].concept,
                      amount |-> acc[conflicts[i].accounting].amount],
      candidates |->
        [k \in DOMAIN conflicts[i].candidates |->
           LET c == conflicts[i].candidates[k]
           IN [id |-> bank[c.bankMovement].id,
               concept |-> bank[c.bankMovement].concept,
               additional |-> bank[c.bankMovement].additional,
               amount |-> bank[c.bankMovement].amount,
               score |-> RoundPercent(c.score)]]]]

\* getConflictsData(), an execution of its own, asked for by the sidebar
\* after a run: it loads the rows and calls reconcileMovements with the
\* CONFIG it starts with; it does not read the user properties
GetConflictsData ==
  /\ pc = "returned"
  /\ conflictsData = NULL
  /\ LET acc == getAccountingData(sheetAcc)
         run == reconcileMovements(acc, getBankData(sheetBank), store,
                                   DefaultConfig)
     IN conflictsData' = <<ConflictsView(run.results.conflicts, acc, run.bank)>>
  /\ UNCHANGED <<sheetAcc, sheetBank, userProps, store, CONFIG, pc, idx,
                 accountingData, bankData, manualMatches, results>>
  /\ UNCHANGED <<batchVars, outputSheet, previous>>

\* the next execution of runReconciliationInternal begins: CONFIG is again
\* the constant of lines 7-29; the history keeps what the run before it
\* read and returned
Rerun ==
  /\ pc = "returned"
  /\ previous = NULL
  /\ previous' = <<[userProps |-> userProps,
                    manualMatches |-> manualMatches,
                    accountingIds |-> [i \in DOMAIN accountingData |->
                                         accountingData[i].id],
                    bankIds |-> [i \in DOMAIN bankData |-> bankData[i].id],
                    results |-> results]>>
  /\ CONFIG' = DefaultConfig
  /\ conflictsData' = NULL
  /\ pc' = "idle"
  /\ UNCHANGED <<sheetAcc, sheetBank, userProps, store, idx,
                 accountingData, bankData, manualMatches, results, outputSheet>>
  /\ UNCHANGED batchVars

(***************************************************************************)
(* resolveConflictsBatch(matches), one call c.  A match is                 *)
(* [accountingId, bankId]; a missing id is NULL.                           *)
(***************************************************************************)
Calls == 1..NCalls

Pending == [pending |-> TRUE]

Failure(message) == [success |-> FALSE, message |-> message]

Success(count) == [success |-> TRUE, count |-> count]

\* the first occurrence of an accountingId kept instead of the last
RECURSIVE UniqueMatches_KeepsFirst(_)
UniqueMatches_KeepsFirst(list) ==
  IF list = <<>> THEN EmptyMap
  ELSE LET rest == UniqueMatches_KeepsFirst(SubSeq(list, 1, Len(list) - 1))
           match == list[Len(list)]
       IN IF match.accountingId # NULL /\ match.bankId # NULL
               /\ match.accountingId \notin DOMAIN rest
          THEN [k \in DOMAIN rest \cup {match.accountingId} |->
                  IF k = match.accountingId THEN match.bankId ELSE rest[k]]
          ELSE rest

\* lines 1019-1024: later occurrences overwrite earlier ones
RECURSIVE UniqueMatches(_)
UniqueMatches(list) ==
  IF list = <<>> THEN EmptyMap
  ELSE LET rest == UniqueMatches(SubSeq(list, 1, Len(list) - 1))
           match == list[Len(list)]
       IN IF match.accountingId # NULL /\ match.bankId # NULL
          THEN [k \in DOMAIN rest \cup {match.accountingId} |->
                  IF k = match.accountingId THEN match.bankId ELSE rest[k]]
          ELSE rest

\* lines 1045-1047
MergeMatches(stored, unique) ==
  [k \in DOMAIN stored \cup DOMAIN unique |->
     IF k \in DOMAIN unique THEN unique[k] ELSE stored[k]]

(***************************************************************************)
(* resolveConflict(accountingId, bankId): it reads the property            *)
(* (line 996), sets the pair in its copy (line 999) and writes the copy    *)
(* back (line 1002); it takes no lock.                                     *)
(***************************************************************************)
\* line 999: manualMatches[accountingId] = bankId
SetMatch(stored, match) ==
  [k \in DOMAIN stored \cup {match.accountingId} |->
     IF k = match.accountingId THEN match.bankId ELSE stored[k]]

\* line 996
ResolveRead ==
  /\ rpc = "start"
  /\ rRead' = store
  /\ rpc' = "write"
  /\ UNCHANGED <<store, rMatch>>
  /\ UNCHANGED <<lock, bpc, matches, uniqueMatches, readMatches, result, lockOrder>>
  /\ UNCHANGED engineVars

\* lines 999-1005
ResolveWrite ==
  /\ rpc = "write"
  /\ store' = SetMatch(rRead, rMatch)
  /\ rpc' = "done"
  /\ UNCHANGED <<rMatch, rRead>>
  /\ UNCHANGED <<lock, bpc, matches, uniqueMatches, readMatches, result, lockOrder>>
  /\ UNCHANGED engineVars

\* the conflicts dialog after a run: the user picks one candidate for some
\* of the listed conflicts and resolveConflictsBatch stores the pairs; the
\* session has one user, so the call gets the lock at once and runs through
ResolveConflicts ==
  /\ pc = "returned"
  /\ previous = NULL
  /\ manualMatches = store
  /\ \E chosen \in (SUBSET DOMAIN results.conflicts) \ {{}} :
       \E pick \in [chosen -> 1..MaxCandidates] :
         /\ \A i \in chosen : pick[i] <= Len(results.conflicts[i].candidates)
         /\ LET picked == SelectSeq([i \in DOMAIN results.conflicts |-> i],
                                    LAMBDA i : i \in chosen)
                sent == [n \in DOMAIN picked |->
                           LET conflict == results.conflicts[picked[n]]
                               candidate == conflict.candidates[pick[picked[n]]]
                           IN [accountingId |-> accountingData[conflict.accounting].id,
                               bankId |-> bankData[candidate.bankMovement].id]]
            IN store' = MergeMatches(store, UniqueMatches(sent))
  /\ UNCHANGED <<sheetAcc, sheetBank, userProps, CONFIG, pc, idx,
                 accountingData, bankData, manualMatches, results>>
  /\ UNCHANGED <<batchVars, sessionVars>>

BatchValidate(c) ==
  /\ bpc[c] = "start"
  /\ uniqueMatches' = [uniqueMatches EXCEPT ![c] = UniqueMatches(matches[c])]
  /\ IF Len(matches[c]) = 0
     THEN /\ result' = [result EXCEPT
                 ![c] = Failure("No hay conciliaciones para aplicar")]
          /\ bpc' = [bpc EXCEPT ![c] = "done"]
     ELSE IF DOMAIN UniqueMatches(matches[c]) = {}
     THEN /\ result' = [result EXCEPT
                 ![c] = Failure("No hay conciliaciones validas para aplicar")]
          /\ bpc' = [bpc EXCEPT ![c] = "done"]
     ELSE /\ bpc' = [bpc EXCEPT ![c] = "waitLock"]
          /\ UNCHANGED result
  /\ UNCHANGED <<store, lock, matches, readMatches, lockOrder>>
  /\ UNCHANGED <<engineVars, resolveVars>>

\* a lock that does not exclude: waitLock returns while another call holds it
BatchAcquire_NoExclusion(c) ==
  /\ bpc[c] = "waitLock"
  /\ lock' = c
  /\ lockOrder' = Append(lockOrder, c)
  /\ bpc' = [bpc EXCEPT ![c] = "read"]
  /\ UNCHANGED <<store, matches, uniqueMatches, readMatches, result>>
  /\ UNCHANGED <<engineVars, resolveVars>>

\* lock.waitLock(30000) returns: the lock is free and becomes c's
BatchAcquire(c) ==
  /\ bpc[c] = "waitLock"
  /\ lock = 0
  /\ lock' = c
  /\ lockOrder' = Append(lockOrder, c)
  /\ bpc' = [bpc EXCEPT ![c] = "read"]
  /\ UNCHANGED <<store, matches, uniqueMatches, readMatches, result>>
  /\ UNCHANGED <<engineVars, resolveVars>>

\* waitLock inside the try block: its exception is caught at line 1053 and
\* the finally block releases the lock
BatchTimeout_InsideTry(c) ==
  /\ bpc[c] = "waitLock"
  /\ lock # 0
  /\ result' = [result EXCEPT ![c] = Failure("Exception")]
  /\ bpc' = [bpc EXCEPT ![c] = "finally"]
  /\ UNCHANGED <<store, lock, matches, uniqueMatches, readMatches, lockOrder>>
  /\ UNCHANGED <<engineVars, resolveVars>>

\* lock.waitLock(30000) throws: another call held the lock for 30 s
BatchTimeout(c) ==
  /\ bpc[c] = "waitLock"
  /\ lock # 0
  /\ result' = [result EXCEPT ![c] = Failure("No se pudo obtener el bloqueo")]
  /\ bpc' = [bpc EXCEPT ![c] = "done"]
  /\ UNCHANGED <<store, lock, matches, uniqueMatches, readMatches, lockOrder>>
  /\ UNCHANGED <<engineVars, resolveVars>>

\* line 1042
BatchRead(c) ==
  /\ bpc[c] = "read"
  /\ readMatches' = [readMatches EXCEPT ![c] = store]
  /\ bpc' = [bpc EXCEPT ![c] = "write"]
  /\ UNCHANGED <<store, lock, matches, uniqueMatches, result, lockOrder>>
  /\ UNCHANGED <<engineVars, resolveVars>>

\* lines 1045-1052
BatchWrite(c) ==
  /\ bpc[c] = "write"
  /\ store' = MergeMatches(readMatches[c], uniqueMatches[c])
  /\ result' = [result EXCEPT
       ![c] = Success(Cardinality(DOMAIN uniqueMatches[c]))]
  /\ bpc' = [bpc EXCEPT ![c] = "finally"]
  /\ UNCHANGED <<lock, matches, uniqueMatches, readMatches, lockOrder>>
  /\ UNCHANGED <<engineVars, resolveVars>>

\* a catch that returns without the finally block: the lock stays held
BatchThrows_NoFinally(c) ==
  /\ bpc[c] \in {"read", "write"}
  /\ result' = [result EXCEPT ![c] = Failure("Exception")]
  /\ bpc' = [bpc EXCEPT ![c] = "done"]
  /\ UNCHANGED <<store, lock, matches, uniqueMatches, readMatches, lockOrder>>
  /\ UNCHANGED <<engineVars, resolveVars>>

\* lines 1053-1054: the property service throws while reading or writing
BatchThrows(c) ==
  /\ bpc[c] \in {"read", "write"}
  /\ result' = [result EXCEPT ![c] = Failure("Exception")]
  /\ bpc' = [bpc EXCEPT ![c] = "finally"]
  /\ UNCHANGED <<store, lock, matches, uniqueMatches, readMatches, lockOrder>>
  /\ UNCHANGED <<engineVars, resolveVars>>

\* lines 1055-1058, then the pending return
BatchRelease(c) ==
  /\ bpc[c] = "finally"
  /\ lock' = IF lock = c THEN 0 ELSE lock
  /\ bpc' = [bpc EXCEPT ![c] = "done"]
  /\ UNCHANGED <<store, matches, uniqueMatches, readMatches, result, lockOrder>>
  /\ UNCHANGED <<engineVars, resolveVars>>

(***************************************************************************)
(* The inputs the model draws.                                             *)
(***************************************************************************)
AccRow(date, entry, concept, amount) ==
  [date |-> <<date>>, entry |-> entry, concept |-> concept,
   amount |-> <<Num(amount)>>]

BankRow(date, concept, additional, amount) ==
  [date |-> <<date>>, concept |-> concept, additional |-> additional,
   amount |-> <<Num(amount)>>]

RowA1 == AccRow(10, 1, <<"a", "b", " ", "1", "2">>, 1000)
RowA2 == AccRow(10, 2, <<"x", "y">>, 1004)
RowA3 == AccRow(13, 3, <<"a", "b">>, 2500)

\* RowB1 and RowB2 get the same id: their concepts differ in a space only
RowB1 == BankRow(10, <<"A", "B", " ", "1", "2">>, <<>>, 1000)
RowB2 == BankRow(10, <<"A", "B", "1", " ", "2">>, <<>>, 1000)
RowB3 == BankRow(12, <<"z", "z">>, <<>>, 996)
RowB4 == BankRow(13, <<"a", "b">>, <<"c">>, 2500)

AccPool == {RowA1, RowA2, RowA3}

BankPool == {RowB1, RowB2, RowB3, RowB4}

UserPropsPool ==
  {[dateToleranceDays |-> NULL, minSimilarityScore |-> NULL],
   [dateToleranceDays |-> <<1, 1>>, minSimilarityScore |-> <<1, 5>>]}

MapOf(k, v) == [x \in {k} |-> v]

StorePool ==
  {EmptyMap,
   MapOf(AccountingId(RowA1), BankId(RowB3)),
   MapOf(AccountingId(RowA3), BankId(RowB1)),
   MergeMatches(MapOf(AccountingId(RowA1), BankId(RowB1)),
                MapOf(AccountingId(RowA2), BankId(RowB1)))}

SeqsUpTo(pool, n) == UNION {[1..k -> pool] : k \in 0..n}

Match(a, b) == [accountingId |-> a, bankId |-> b]

MatchesPool ==
  {<<>>,
   <<Match(AccountingId(RowA1), NULL)>>,
   <<Match(AccountingId(RowA1), BankId(RowB1))>>,
   <<Match(AccountingId(RowA1), BankId(RowB1)),
     Match(AccountingId(RowA1), BankId(RowB3))>>,
   <<Match(AccountingId(RowA2), BankId(RowB1))>>,
   <<Match(AccountingId(RowA1), BankId(RowB3)),
     Match(AccountingId(RowA2), BankId(RowB3))>>,
   <<Match(AccountingId(RowA1), BankId(RowB1)),
     Match(AccountingId(RowA1), NULL)>>}

\* the rows of the sessions: one amount, rounded, for all of them
EmptyAccRow == [date |-> NULL, entry |-> 0, concept |-> <<>>, amount |-> NULL]

RowE1 == AccRow(15, 1, <<"a", "b">>, 1000)
RowE2 == AccRow(15, 2, <<>>, 1000)

AccSheets ==
  {<<RowE1>>, <<RowE2>>, <<EmptyAccRow, RowE1>>, <<RowE1, RowE2>>, <<RowE2, RowE1>>}

CandidateRows ==
  <<BankRow(15, <<"A", "B">>, <<>>, 1004),
    BankRow(17, <<"z", "z">>, <<>>, 1000),
    BankRow(15, <<"-">>, <<>>, 1004),
    BankRow(17, <<"a", "b">>, <<>>, 1000),
    BankRow(16, <<"a", "b", " ", "z", "z">>, <<>>, 996),
    BankRow(18, <<"a", "b">>, <<"x">>, 1000),
    BankRow(15, <<"z", "q">>, <<>>, 1000),
    BankRow(19, <<"a", "b">>, <<>>, 1000)>>

\* the first n candidate rows, and each of them alone
BankSheets ==
  LET n == Min(MaxCandidates, Len(CandidateRows))
  IN {SubSeq(CandidateRows, 1, k) : k \in 0..n}
       \cup {<<CandidateRows[k]>> : k \in 1..n}

SessionStores ==
  {EmptyMap, MapOf(AccountingId(RowE1), BankId(CandidateRows[2]))}

\* the amount cells of the parser's sheets: the strings of
\* testSpanishNumberParser and every string of up to MaxLen characters
AmountChars == {"0", "1", ".", ",", "-", "a"}

TestStrings ==
  {<<"-", "1", ".", "7", "5", "0", ",", "0", "0">>,
   <<"1", ".", "7", "5", "0", ",", "0", "0">>,
   <<"7", "5", "0", ",", "0", "0">>,
   <<"-", "7", "5", "0", ",", "5", "0">>,
   <<"1", ".", "2", "3", "4", ".", "5", "6", "7", ",", "8", "9">>,
   <<"1", "7", "5", "0">>,
   <<"0", ",", "0", "0">>}

AmountCells ==
  {Num(1750000)} \cup {Str(chars) : chars \in TestStrings}
    \cup {Str(chars) : chars \in UNION {[1..k -> AmountChars] : k \in 1..MaxLen}}

\* the sheets of the session that resolves conflicts: three entries and up
\* to three records of one amount, every id different
RowR1 == AccRow(10, 1, <<"z", "z">>, 1000)

RowR2 == AccRow(10, 2, <<"a", "b">>, 1000)

RowR3 == AccRow(20, 3, <<"q", "q">>, 1000)

ResolveAccSheets ==
  {<<RowR1, RowR2, RowR3>>, <<RowR1, RowR3>>, <<RowR3, RowR1>>, <<RowR1, RowR2>>}

ResolveBankRows ==
  <<BankRow(10, <<"a", "b">>, <<>>, 1000),
    BankRow(10, <<"a", "x">>, <<>>, 1000),
    BankRow(11, <<"z", "q">>, <<>>, 1000)>>

ResolveBankSheets == {SubSeq(ResolveBankRows, 1, k) : k \in 1..Len(ResolveBankRows)}

\* the concepts of the scorer's sheets
Cheque661112 == <<"C", "h", "e", "q", "u", "e", " ", "6", "6", "1", "1", "1", "2">>

CHQ1112 == <<"C", "H", "Q", " ", "1", "1", "1", "2">>

EntryConcepts ==
  {Cheque661112,
   <<"a", " ", "1", "2", " ", "1", "2">>,
   <<"a", "b", " ", "1", "2">>,
   <<"x", " ", "1", "1", "1", "2">>,
   <<"x", "y">>}

RecordConcepts ==
  {CHQ1112,
   <<"b", " ", "1", "2", " ", "7">>,
   <<"b", " ", "1", "2">>,
   <<"y", " ", "6", "6", "1", "1", "1", "2">>,
   <<"z", "z">>}

TolerancePool ==
  {[dateToleranceDays |-> NULL, minSimilarityScore |-> NULL],
   [dateToleranceDays |-> <<1, 1>>, minSimilarityScore |-> NULL],
   [dateToleranceDays |-> <<2, 1>>, minSimilarityScore |-> NULL]}

ResolveIdle ==
  /\ rpc = "idle"
  /\ rMatch = NULL
  /\ rRead = EmptyMap

BatchIdle ==
  /\ ResolveIdle
  /\ lock = 0
  /\ bpc = [c \in Calls |-> "idle"]
  /\ matches = [c \in Calls |-> <<>>]
  /\ uniqueMatches = [c \in Calls |-> EmptyMap]
  /\ readMatches = [c \in Calls |-> EmptyMap]
  /\ result = [c \in Calls |-> Pending]
  /\ lockOrder = <<>>

EngineIdle ==
  /\ CONFIG = DefaultConfig
  /\ pc = "idle"
  /\ idx = 0
  /\ accountingData = <<>>
  /\ bankData = <<>>
  /\ manualMatches = EmptyMap
  /\ results = EmptyResults
  /\ outputSheet = "previous"
  /\ conflictsData = NULL
  /\ previous = NULL

(***************************************************************************)
(* Spec: one run of the reconciliation over any rows, saved configuration  *)
(* and stored manual matches.                                              *)
(***************************************************************************)
Init ==
  /\ sheetAcc \in SeqsUpTo(AccPool, MaxEntries)
  /\ sheetBank \in SeqsUpTo(BankPool, MaxRecords)
  /\ userProps \in UserPropsPool
  /\ store \in StorePool
  /\ EngineIdle
  /\ BatchIdle

Next == StartRun \/ ProcessEntry \/ FinishRun

Spec == Init /\ [][Next]_vars

(***************************************************************************)
(* SpecParse: one run over a sheet of one entry whose amount cell is any   *)
(* of the amount cells, and no bank rows.                                  *)
(***************************************************************************)
InitParse ==
  /\ \E cell \in AmountCells :
       sheetAcc = <<[date |-> <<10>>, entry |-> 1, concept |-> <<"a">>,
                     amount |-> <<cell>>]>>
  /\ sheetBank = <<>>
  /\ userProps = [dateToleranceDays |-> NULL, minSimilarityScore |-> NULL]
  /\ store = EmptyMap
  /\ EngineIdle
  /\ BatchIdle

SpecParse == InitParse /\ [][Next]_vars

(***************************************************************************)
(* SpecResolve: a run, the conflicts dialog that stores overrides for some *)
(* of its conflicts, and the next run over the same rows.                  *)
(***************************************************************************)
InitResolve ==
  /\ sheetAcc \in ResolveAccSheets
  /\ sheetBank \in ResolveBankSheets
  /\ userProps = [dateToleranceDays |-> NULL, minSimilarityScore |-> NULL]
  /\ store = EmptyMap
  /\ EngineIdle
  /\ BatchIdle

NextResolve ==
  \/ StartRun
  \/ ProcessEntry
  \/ FinishRun
  \/ OutputResults
  \/ ResolveConflicts
  \/ Rerun

SpecResolve == InitResolve /\ [][NextResolve]_vars

(***************************************************************************)
(* SpecScore: one run over one entry and one record of its amount, of any  *)
(* two concepts, up to MaxDiff days apart, under any saved tolerance.      *)
(***************************************************************************)
InitScore ==
  /\ \E concept \in EntryConcepts :
       sheetAcc = <<AccRow(10, 1, concept, 150000)>>
  /\ \E concept \in RecordConcepts : \E diff \in 0..MaxDiff :
       sheetBank = <<BankRow(10 + diff, concept, <<>>, 150000)>>
  /\ userProps \in TolerancePool
  /\ store = EmptyMap
  /\ EngineIdle
  /\ BatchIdle

SpecScore == InitScore /\ [][Next]_vars

(***************************************************************************)
(* SpecBatch: concurrent resolveConflictsBatch calls on one document.      *)
(***************************************************************************)
InitBatch ==
  /\ sheetAcc = <<>>
  /\ sheetBank = <<>>
  /\ userProps = [dateToleranceDays |-> NULL, minSimilarityScore |-> NULL]
  /\ store \in {EmptyMap, MapOf(AccountingId(RowA2), BankId(RowB3))}
  /\ EngineIdle
  /\ lock = 0
  /\ bpc = [c \in Calls |-> "start"]
  /\ matches \in [Calls -> MatchesPool]
  /\ uniqueMatches = [c \in Calls |-> EmptyMap]
  /\ readMatches = [c \in Calls |-> EmptyMap]
  /\ result = [c \in Calls |-> Pending]
  /\ lockOrder = <<>>
  /\ ResolveIdle

NextBatch ==
  \E c \in Calls :
    \/ BatchValidate(c)
    \/ BatchAcquire(c)
    \/ BatchTimeout(c)
    \/ BatchRead(c)
    \/ BatchWrite(c)
    \/ BatchThrows(c)
    \/ BatchRelease(c)

SpecBatch == InitBatch /\ [][NextBatch]_vars

(***************************************************************************)
(* SpecConcurrent: one resolveConflict call among the concurrent           *)
(* resolveConflictsBatch calls.                                            *)
(***************************************************************************)
ResolvePool ==
  {Match(AccountingId(RowA3), BankId(RowB4)),
   Match(AccountingId(RowA1), BankId(RowB3))}

InitConcurrent ==
  /\ sheetAcc = <<>>
  /\ sheetBank = <<>>
  /\ userProps = [dateToleranceDays |-> NULL, minSimilarityScore |-> NULL]
  /\ store \in {EmptyMap, MapOf(AccountingId(RowA2), BankId(RowB3))}
  /\ EngineIdle
  /\ lock = 0
  /\ bpc = [c \in Calls |-> "start"]
  /\ matches \in [Calls -> MatchesPool]
  /\ uniqueMatches = [c \in Calls |-> EmptyMap]
  /\ readMatches = [c \in Calls |-> EmptyMap]
  /\ result = [c \in Calls |-> Pending]
  /\ lockOrder = <<>>
  /\ rpc = "start"
  /\ rMatch \in ResolvePool
  /\ rRead = EmptyMap

NextConcurrent ==
  \/ NextBatch
  \/ ResolveRead
  \/ ResolveWrite

SpecConcurrent == InitConcurrent /\ [][NextConcurrent]_vars

\* a script execution that has started runs on: some call that has not
\* returned takes its next step
SpecBatchLive == SpecBatch /\ WF_vars(NextBatch)

(***************************************************************************)
(* SpecSession: the executions of one user's session on one document:      *)
(* saving the configuration, a run, the sidebar asking for the conflicts,  *)
(* a second run.                                                           *)
(***************************************************************************)
InitSession ==
  /\ sheetAcc \in AccSheets
  /\ sheetBank \in BankSheets
  /\ userProps = [dateToleranceDays |-> NULL, minSimilarityScore |-> NULL]
  /\ store \in SessionStores
  /\ EngineIdle
  /\ BatchIdle

NextSession ==
  \/ SaveConfig
  \/ StartFails
  \/ StartRun
  \/ ProcessEntry
  \/ FinishRun
  \/ OutputResults
  \/ OutputFails
  \/ GetConflictsData
  \/ Rerun

SpecSession == InitSession /\ [][NextSession]_vars

(***************************************************************************)
(* Properties of the run (specification Spec).                             *)
(***************************************************************************)
Running == pc \in {"loop", "done"}

MatchedEntries == [i \in DOMAIN results.matched |-> results.matched[i].accounting]

ConflictEntries == [i \in DOMAIN results.conflicts |-> results.conflicts[i].accounting]

Count(list, x) == Cardinality({i \in DOMAIN list : list[i] = x})

Occurrences(e) ==
  Count(MatchedEntries, e) + Count(ConflictEntries, e)
    + Count(results.unmatchedAccounting, e)

MatchedRecords == {results.matched[i].bank : i \in DOMAIN results.matched}

\* C1: when reconcileMovements has completed, every input entry is in
\* exactly one of matched, conflicts and unmatchedAccounting, exactly once,
\* and the three lists hold input entries only.  (While the loop runs this
\* holds of the entries already visited; the others are in none.)
C1_EntryPartition ==
  Running =>
    /\ \A e \in DOMAIN accountingData :
         Occurrences(e) = (IF pc = "done" \/ e < idx THEN 1 ELSE 0)
    /\ Range(MatchedEntries) \cup Range(ConflictEntries)
         \cup Range(results.unmatchedAccounting) \subseteq DOMAIN accountingData

C1_Witness ==
  /\ pc = "done"
  /\ Len(accountingData) = 2
  /\ Len(results.matched) = 1
  /\ Len(results.conflicts) + Len(results.unmatchedAccounting) = 1

\* C2: in every state of the run no bank record is the record of two
\* matches, manual or automatic, and every matched record is an input record
\* (and carries the matched flag).
C2_RecordConsumedOnce ==
  Running =>
    /\ \A i, j \in DOMAIN results.matched :
         i # j => results.matched[i].bank # results.matched[j].bank
    /\ \A i \in DOMAIN results.matched :
         /\ results.matched[i].bank \in DOMAIN bankData
         /\ bankData[results.matched[i].bank].matched

C2_Witness ==
  /\ pc = "done"
  /\ Len(results.matched) = 2
  /\ \E i \in DOMAIN results.matched : results.matched[i].manualMatch
  /\ \E i \in DOMAIN results.matched : results.matched[i].autoMatched

\* C3: after all entries are processed, every input record that no match
\* consumed is listed in unmatchedBank.
C3_UnconsumedReported ==
  pc = "done" =>
    \A b \in DOMAIN bankData :
      b \notin MatchedRecords => ListIncludes(results.unmatchedBank, b)

(***************************************************************************)
(* The entry the loop is about to visit, seen from the state before the    *)
(* callback runs.                                                          *)
(***************************************************************************)
Visiting == pc = "loop" /\ idx <= Len(accountingData)

Cur == accountingData[idx]

HasOverride == Cur.id \in DOMAIN manualMatches

\* the record an id stands for: the last input record that carries it
RecordsOfId(id) ==
  {b \in DOMAIN bankData :
     /\ bankData[b].id = id
     /\ \A later \in DOMAIN bankData : later > b => bankData[later].id # id}

\* the override of the current entry names a record that is there and free
OverrideTargets ==
  IF HasOverride
  THEN {b \in RecordsOfId(manualMatches[Cur.id]) : ~bankData[b].matched}
  ELSE {}

SameAmount(e, b) ==
  RoundedAmount(accountingData[e].amount) = RoundedAmount(bankData[b].amount)

\* the unconsumed records of the current entry's rounded amount
FreeCandidates == {b \in DOMAIN bankData : ~bankData[b].matched /\ SameAmount(idx, b)}

LastOf(list) == list[Len(list)]

OnlyMatchedGrows(m) ==
  /\ results'.matched = Append(results.matched, m)
  /\ results'.conflicts = results.conflicts
  /\ results'.unmatchedAccounting = results.unmatchedAccounting

\* C4: an entry whose override names a record that is present and not yet
\* consumed is committed as a match with that record, score 1.0 and
\* manualMatch = TRUE; nothing else is recorded for it, whatever the amounts,
\* dates and concepts of the two are.  (An id shared by several records
\* stands for the last of them, as in bankById.)
C4_OverrideWins ==
  [][Visiting =>
       \A b \in OverrideTargets :
         /\ OnlyMatchedGrows([accounting |-> idx, bank |-> b, score |-> <<1, 1>>,
                              autoMatched |-> FALSE, manualMatch |-> TRUE])
         /\ bankData'[b].matched
         /\ idx' = idx + 1]_vars

\* a manual match between an entry and a record of another rounded amount,
\* another date and another concept
C4_Witness ==
  /\ Running
  /\ \E i \in DOMAIN results.matched :
       LET m == results.matched[i]
       IN /\ m.manualMatch
          /\ ~SameAmount(m.accounting, m.bank)
          /\ accountingData[m.accounting].date # bankData[m.bank].date
          /\ accountingData[m.accounting]._normalized # bankData[m.bank]._normalized

\* C5: an entry whose override names a record that is absent or already
\* consumed is processed without error exactly as if it had no override: the
\* callback leaves the results and the records as the automatic rules leave
\* them, and what it records pairs the entry only with records that were
\* unconsumed and of its rounded amount.
C5_StaleOverrideFallsThrough ==
  [][(Visiting /\ HasOverride /\ OverrideTargets = {}) =>
       LET auto == ProcessMovement(EmptyMap, bankData, Cur, idx, results, CONFIG)
       IN /\ results' = auto.results
          /\ bankData' = auto.bank
          /\ idx' = idx + 1
          /\ Len(results'.matched) > Len(results.matched) =>
               /\ ~LastOf(results'.matched).manualMatch
               /\ LastOf(results'.matched).bank \in FreeCandidates
          /\ Len(results'.conflicts) > Len(results.conflicts) =>
               \A k \in DOMAIN LastOf(results'.conflicts).candidates :
                 LastOf(results'.conflicts).candidates[k].bankMovement
                   \in FreeCandidates
          /\ FreeCandidates = {} =>
               results'.unmatchedAccounting = Append(results.unmatchedAccounting, idx)]_vars

\* an entry went to automatic scoring although it has an override, because
\* an earlier entry had consumed the record the override names
C5_Witness ==
  /\ Running
  /\ \E e \in DOMAIN accountingData :
       /\ e < idx
       /\ accountingData[e].id \in DOMAIN manualMatches
       /\ \E i \in DOMAIN results.matched :
            /\ results.matched[i].accounting < e
            /\ bankData[results.matched[i].bank].id
                 = manualMatches[accountingData[e].id]
       /\ \E i \in DOMAIN results.conflicts : results.conflicts[i].accounting = e

AmountsAgree ==
  /\ \A i \in DOMAIN results.matched :
       ~results.matched[i].manualMatch =>
         SameAmount(results.matched[i].accounting, results.matched[i].bank)
  /\ \A i \in DOMAIN results.conflicts :
       \A k \in DOMAIN results.conflicts[i].candidates :
         SameAmount(results.conflicts[i].accounting,
                    results.conflicts[i].candidates[k].bankMovement)

BecomesUnmatched ==
  /\ results'.unmatchedAccounting = Append(results.unmatchedAccounting, idx)
  /\ results'.matched = results.matched
  /\ results'.conflicts = results.conflicts

\* C6 as stated: non-manual matches and conflict candidates have the
\* entry's rounded amount, and an entry with no unconsumed record of its
\* rounded amount is classified Unmatched.
C6_AsStated ==
  [][/\ AmountsAgree'
     /\ (Visiting /\ FreeCandidates = {}) => BecomesUnmatched]_vars

\* C6, amended: ... an entry with no unconsumed record of its rounded amount
\* is classified Unmatched unless an override that names a present,
\* unconsumed record matches it manually.
C6_AmountBuckets ==
  [][/\ AmountsAgree'
     /\ (Visiting /\ FreeCandidates = {} /\ OverrideTargets = {})
          => BecomesUnmatched]_vars

\* an automatic match across amounts that differ before rounding, and an
\* entry left unmatched while bank records of other amounts were free
C6_Witness ==
  /\ pc = "done"
  /\ \E i \in DOMAIN results.matched :
       /\ results.matched[i].autoMatched
       /\ accountingData[results.matched[i].accounting].amount
            # bankData[results.matched[i].bank].amount
  /\ Len(results.unmatchedAccounting) > 0
  /\ Len(results.unmatchedBank) > 0

\* the decision the code takes on a list of scores, best first
DecisionOn(scores, minScore) ==
  LET scoredMatches == [k \in DOMAIN scores |-> [bankMovement |-> k, score |-> scores[k]]]
  IN IF IsAboveThreshold(scoredMatches, minScore) /\ IsClearWinner(scoredMatches)
     THEN "AutoMatched"
     ELSE ConflictReason(scoredMatches, minScore)

C8_SingleCandidateAutoMatched ==
  [][(Visiting /\ OverrideTargets = {} /\ Cardinality(FreeCandidates) = 1) =>
       /\ Len(results'.matched) = Len(results.matched) + 1
       /\ LastOf(results'.matched).accounting = idx
       /\ LastOf(results'.matched).bank \in FreeCandidates
       /\ LastOf(results'.matched).autoMatched]_vars

(***************************************************************************)
(* Properties of resolveConflictsBatch (specification SpecBatch).          *)
(***************************************************************************)
LockFailure == Failure("No se pudo obtener el bloqueo")

\* C9: a call whose waitLock fails returns {success: false, message} at
\* once, leaving the stored map and the lock as they were; it wrote nothing
\* before (validation does not touch the store); once returned a call stays
\* returned with the same value (no retry); and only a call that holds the
\* lock is inside the try block or at releaseLock.
C9_LockTimeout ==
  [][\A c \in Calls :
       /\ (bpc[c] = "waitLock" /\ bpc'[c] # "waitLock" /\ lock' # c) =>
            /\ bpc'[c] = "done"
            /\ result'[c] = LockFailure
            /\ DOMAIN result'[c] = {"success", "message"}
            /\ ~result'[c].success
            /\ store' = store
            /\ lock' = lock
       /\ (bpc[c] = "start" /\ bpc'[c] # "start") => store' = store
       /\ bpc[c] = "done" => (bpc'[c] = "done" /\ result'[c] = result[c])
       /\ bpc'[c] \in {"read", "write", "finally"} => lock' = c]_vars

\* a call has returned the lock failure while the other call, which held the
\* lock, has written the store
C9_Witness ==
  \E c, d \in Calls :
    /\ bpc[c] = "done"
    /\ result[c] = LockFailure
    /\ bpc[d] = "done"
    /\ result[d] = Success(Cardinality(DOMAIN uniqueMatches[d]))
    /\ store # EmptyMap

Succeeded(c) ==
  /\ bpc[c] \in {"finally", "done"}
  /\ result[c] = Success(Cardinality(DOMAIN uniqueMatches[c]))

LockPosition(c) == CHOOSE i \in DOMAIN lockOrder : lockOrder[i] = c

\* the successful calls that wrote entry id k
WritersOf(k) == {c \in Calls : Succeeded(c) /\ k \in DOMAIN uniqueMatches[c]}

\* C10: at most one call at a time is between acquiring the lock and
\* releasing it, so between reading the stored map and writing it back; and
\* the stored map holds every entry id written by a successful call, with
\* the record id of the call that held the lock last among those that wrote
\* that entry id.
C10_BatchesSerialized ==
  /\ Cardinality({c \in Calls : bpc[c] \in {"read", "write", "finally"}}) <= 1
  /\ \A k \in UNION {DOMAIN uniqueMatches[c] : c \in Calls} :
       WritersOf(k) # {} =>
         /\ k \in DOMAIN store
         /\ \E c \in WritersOf(k) :
              /\ \A d \in WritersOf(k) : LockPosition(d) <= LockPosition(c)
              /\ store[k] = uniqueMatches[c][k]

\* two calls that give different records to the same entry have both
\* returned success
C10_Witness ==
  \E c, d \in Calls :
    /\ c # d
    /\ bpc[c] = "done" /\ Succeeded(c)
    /\ bpc[d] = "done" /\ Succeeded(d)
    /\ \E k \in DOMAIN uniqueMatches[c] \cap DOMAIN uniqueMatches[d] :
         uniqueMatches[c][k] # uniqueMatches[d][k]
    /\ DOMAIN uniqueMatches[c] # DOMAIN uniqueMatches[d]

\* C11: a call that acquired the lock has released it when it returns, on
\* success and when reading, parsing or writing the store throws; a throw
\* inside the try block ends in {success: false, message}; the lock is held
\* only by a call inside the try block or at releaseLock; every lock that is
\* held is released later, a waiting call stops waiting, and in the end the
\* lock is free for good.
C11_LockReleased ==
  /\ [][\A c \in Calls :
          /\ (bpc[c] # "done" /\ bpc'[c] = "done") => lock' # c
          /\ (bpc[c] \in {"read", "write"} /\ result'[c] # Pending
                 /\ ~result'[c].success) =>
               /\ DOMAIN result'[c] = {"success", "message"}
               /\ bpc'[c] = "finally"
          /\ (bpc[c] = "finally" /\ bpc'[c] # "finally") =>
               (bpc'[c] = "done" /\ lock' = 0)]_vars
  /\ [](\A c \in Calls : lock = c => bpc[c] \in {"read", "write", "finally"})
  /\ \A c \in Calls : (lock = c) ~> (lock # c)
  /\ \A c \in Calls : (bpc[c] = "waitLock") ~> (bpc[c] # "waitLock")
  /\ <>[](lock = 0 /\ \A c \in Calls : bpc[c] = "done")

\* a call threw inside the try block and returned the failure, and the call
\* that waited for the lock acquired it afterwards and succeeded
C11_Witness ==
  \E c, d \in Calls :
    /\ lockOrder = <<c, d>>
    /\ bpc[c] = "done" /\ result[c] = Failure("Exception")
    /\ bpc[d] = "done" /\ result[d].success
    /\ lock = 0

IsValid(match) == match.accountingId # NULL /\ match.bankId # NULL

\* the record id of the last pair of the list that names entry id k
LastRecordFor(pairs, k) ==
  LET occ == {i \in DOMAIN pairs : pairs[i].accountingId = k}
  IN pairs[CHOOSE i \in occ : \A j \in occ : j <= i].bankId

EntryIdsOf(pairs) == {pairs[i].accountingId : i \in DOMAIN pairs}

Overridden(stored, pairs) ==
  [k \in DOMAIN stored \cup EntryIdsOf(pairs) |->
     IF k \in EntryIdsOf(pairs) THEN LastRecordFor(pairs, k) ELSE stored[k]]

Writes(c) == bpc[c] = "write" /\ bpc'[c] = "finally" /\ result'[c].success

Rejected(c) ==
  /\ bpc'[c] = "done"
  /\ DOMAIN result'[c] = {"success", "message"}
  /\ ~result'[c].success
  /\ store' = store

\* C12 as stated: a successful call leaves the stored map equal to the
\* previous map overridden, for each entry id occurring in the pairs, with
\* the record id of its last occurrence.
C12_AsStated ==
  [][\A c \in Calls :
       Writes(c) =>
         store' = Overridden(store, SelectSeq(matches[c],
                                              LAMBDA m : m.accountingId # NULL))]_vars

\* C12, amended: a successful call leaves the stored map equal to the
\* previous map overridden, for each entry id occurring in a pair that has
\* both ids, with the record id of the last such pair; the other pairs of
\* the previous map are unchanged; the count returned is the number of
\* distinct entry ids written.  An empty list, and a list with no pair that
\* has both ids, return {success: false, message} with the map unchanged.
C12_BatchMerge ==
  [][\A c \in Calls :
       LET valid == SelectSeq(matches[c], IsValid)
       IN /\ Writes(c) =>
               /\ store' = Overridden(store, valid)
               /\ \A k \in DOMAIN store \ EntryIdsOf(valid) : store'[k] = store[k]
               /\ result'[c] = Success(Cardinality(EntryIdsOf(valid)))
               /\ valid # <<>>
          /\ (bpc[c] = "start" /\ bpc'[c] # "start" /\ valid = <<>>) =>
               Rejected(c)]_vars

\* a call given two pairs of one entry has returned count 1, and the stored
\* map holds the record of the second pair next to the pair it held before
C12_Witness ==
  \E c \in Calls :
    /\ bpc[c] = "done"
    /\ Len(matches[c]) = 2
    /\ IsValid(matches[c][2])
    /\ result[c] = Success(1)
    /\ AccountingId(RowA2) \in DOMAIN store
    /\ store[matches[c][1].accountingId] = matches[c][2].bankId
    /\ matches[c][1].bankId # matches[c][2].bankId

(***************************************************************************)
(* Properties of a session (specification SpecSession).                    *)
(***************************************************************************)
Loaded == pc \in {"loop", "done", "returned"}

Prev == previous[1]

SameFields(a, b) ==
  /\ a.date = b.date
  /\ a.entryNumber = b.entryNumber
  /\ a.concept = b.concept
  /\ a.amount = b.amount

\* the positions an entry id and a record id resolve to in lists of ids
EntriesOf(ids, k) == {i \in DOMAIN ids : ids[i] = k}

RecordOf(ids, k) ==
  LET same == {i \in DOMAIN ids : ids[i] = k}
  IN IF same = {} THEN 0 ELSE CHOOSE i \in same : \A j \in same : j <= i

\* C13: the id of an entry is made of its own date, entry number and amount
\* and the id of a record of its own date, the letters and digits of the
\* first 20 characters of its concept and its amount; an entry with the same
\* fields gets the same id in any other sheet, at any position, among any
\* other rows; the rows loaded again by a later run get the ids they had,
\* and every stored override resolves to the same entries and the same
\* record as in the run before.
C13_IdsFromRowFields ==
  Loaded =>
    /\ \A i \in DOMAIN accountingData :
         LET a == accountingData[i]
         IN a.id = <<"ACC", a.date, a.entryNumber, a.amount>>
    /\ \A i \in DOMAIN bankData :
         LET b == bankData[i]
         IN b.id = <<"BANK", b.date,
                     SelectSeq(SubSeq(b.concept, 1, Min(20, Len(b.concept))),
                               LAMBDA ch : ch \in AlnumChars),
                     b.amount>>
    /\ (pc = "loop" /\ idx = 1) =>
         \A sheet \in AccSheets :
           LET other == getAccountingData(sheet)
           IN \A i \in DOMAIN accountingData : \A j \in DOMAIN other :
                SameFields(accountingData[i], other[j]) =>
                  accountingData[i].id = other[j].id
    /\ previous # NULL =>
         /\ [i \in DOMAIN accountingData |-> accountingData[i].id]
              = Prev.accountingIds
         /\ [i \in DOMAIN bankData |-> bankData[i].id] = Prev.bankIds
         /\ \A k \in DOMAIN store :
              /\ EntriesOf(Prev.accountingIds, k)
                   = {i \in DOMAIN accountingData : accountingData[i].id = k}
              /\ RecordOf(Prev.bankIds, store[k]) = bankById(bankData, store[k])

\* the second run of a session has matched an entry manually to the record
\* the first run matched it to, an entry that other sheets hold at another
\* position
C13_Witness ==
  /\ previous # NULL
  /\ pc = "returned"
  /\ sheetAcc = <<EmptyAccRow, RowE1>>
  /\ \E i \in DOMAIN results.matched :
       /\ results.matched[i].manualMatch
       /\ results.matched[i] \in Range(Prev.results.matched)

\* the pairs the run has scored and kept: automatic matches and the
\* candidates of conflicts
ScoredPairs ==
  {[accounting |-> results.matched[i].accounting,
    bank |-> results.matched[i].bank,
    score |-> results.matched[i].score] :
      i \in {j \in DOMAIN results.matched : results.matched[j].autoMatched}}
  \cup UNION {{[accounting |-> results.conflicts[i].accounting,
                bank |-> results.conflicts[i].candidates[k].bankMovement,
                score |-> results.conflicts[i].candidates[k].score] :
                  k \in DOMAIN results.conflicts[i].candidates} :
              i \in DOMAIN results.conflicts}

Alike(p) ==
  /\ SameAmount(p.accounting, p.bank)
  /\ accountingData[p.accounting]._normalized = bankData[p.bank]._normalized
  /\ accountingData[p.accounting].date = bankData[p.bank].date

\* C14 as stated: an entry and a record with equal rounded amount,
\* identical normalized concept and zero date difference score exactly 1.0.
C14_AsStated ==
  Loaded => \A p \in ScoredPairs : Alike(p) => p.score = <<1, 1>>

\* C14, amended: an entry and a record with equal rounded amount, identical
\* non-empty normalized concept and zero date difference score exactly 1.0
\* (two concepts that are both empty after normalization have similarity 0
\* and score 0.3).
C14_IdenticalScoresOne ==
  Loaded =>
    \A p \in ScoredPairs :
      Alike(p) =>
        p.score = (IF accountingData[p.accounting]._normalized # <<>>
                   THEN <<1, 1>> ELSE <<3, 10>>)

\* an automatic match with score 1.0 between an entry and a record whose
\* concepts and amounts differ before normalization and rounding
C14_Witness ==
  /\ Loaded
  /\ \E p \in ScoredPairs :
       /\ Alike(p)
       /\ p.score = <<1, 1>>
       /\ accountingData[p.accounting].concept # bankData[p.bank].concept
       /\ accountingData[p.accounting].amount # bankData[p.bank].amount

\* C15: the conflict list that getConflictsData returns after a run, over
\* the same rows, overrides and saved configuration, holds exactly the
\* conflicts of that run, with the same candidates in the same order.
C15_ConflictsAreTheRuns ==
  (pc = "returned" /\ conflictsData # NULL) =>
    conflictsData[1] = ConflictsView(results.conflicts, accountingData, bankData)

SavedTolerance == userProps.dateToleranceDays

SavedThreshold == userProps.minSimilarityScore

\* C16: a run uses the saved dateToleranceDays and minSimilarityScore
\* whatever their values, 0 included: after tolerance 0 was saved, the pairs
\* the run scores get a date component only when their dates are equal, and
\* after threshold 0 was saved any best score above 0 is above the
\* threshold, so that no conflict with such a best score is one of low
\* confidence.
C16_SavedConfigUsed ==
  Loaded =>
    /\ SavedTolerance # NULL => CONFIG.DATE_TOLERANCE_DAYS = SavedTolerance[1]
    /\ SavedThreshold # NULL => CONFIG.MIN_SIMILARITY_SCORE = SavedThreshold
    /\ SavedTolerance = <<0, 1>> =>
         \A p \in ScoredPairs :
           accountingData[p.accounting].date # bankData[p.bank].date =>
             p.score = RMul(<<7, 10>>,
                            calculateConceptSimilarityCached(
                              accountingData[p.accounting], bankData[p.bank]))
    /\ SavedThreshold = <<0, 1>> =>
         \A i \in DOMAIN results.conflicts :
           RLt(<<0, 1>>, results.conflicts[i].candidates[1].score) =>
             results.conflicts[i].reason # "Baja confianza"

RunStep == pc \in {"idle", "loop", "done"} /\ pc' # pc

\* C17: a run either returns its full results or fails and returns nothing;
\* no step of a run writes the stored overrides, and a run that fails leaves
\* the stored overrides, the saved configuration, the source rows and the
\* output sheet as they were before the run.
C17_FailedRunChangesNothing ==
  [][/\ (pc \in {"idle", "loop", "done"} /\ (pc' # pc \/ idx' # idx)) =>
          store' = store
     /\ (RunStep /\ pc' = "returned") =>
          /\ pc = "done"
          /\ results' = results
          /\ Len(results.matched) + Len(results.conflicts)
               + Len(results.unmatchedAccounting) = Len(accountingData)
     /\ (RunStep /\ pc' = "failed") =>
          /\ store' = store
          /\ userProps' = userProps
          /\ sheetAcc' = sheetAcc /\ sheetBank' = sheetBank
          /\ outputSheet' = outputSheet]_vars

SameInputsAsBefore ==
  /\ previous # NULL
  /\ pc \in {"done", "returned"}
  /\ userProps = Prev.userProps
  /\ manualMatches = Prev.manualMatches

NewConflict == Len(results'.conflicts) = Len(results.conflicts) + 1

\* C19: the candidate list of every conflict has at most 5 elements, is
\* sorted by descending score, holds only unconsumed records of the entry's
\* rounded amount with the scores the scorer gives them, as many of them as
\* there are up to 5, and no such record left out scores higher than a
\* listed one.
C19_TopFiveCandidates ==
  [][(Visiting /\ NewConflict) =>
       LET candidates == LastOf(results'.conflicts).candidates
           listed == {candidates[k].bankMovement : k \in DOMAIN candidates}
           ScoreOf(b) == calculateMatchScore(Cur, bankData[b],
                                             CONFIG.DATE_TOLERANCE_DAYS)
       IN /\ Len(candidates) <= 5
          /\ Len(candidates) = Min(5, Cardinality(FreeCandidates))
          /\ Cardinality(listed) = Len(candidates)
          /\ listed \subseteq FreeCandidates
          /\ \A k \in DOMAIN candidates :
               candidates[k].score = ScoreOf(candidates[k].bankMovement)
          /\ \A k \in 1..(Len(candidates) - 1) :
               RLe(candidates[k + 1].score, candidates[k].score)
          /\ \A b \in FreeCandidates \ listed : \A k \in DOMAIN candidates :
               RLe(ScoreOf(b), candidates[k].score)]_vars

\* a conflict lists 5 candidates of different scores while the entry had
\* more than 5 unconsumed records of its amount
C19_Witness ==
  /\ Loaded
  /\ \E i \in DOMAIN results.conflicts :
       LET candidates == results.conflicts[i].candidates
       IN /\ Len(candidates) = 5
          /\ candidates[1].score # candidates[5].score
          /\ Cardinality({b \in DOMAIN bankData :
                            SameAmount(results.conflicts[i].accounting, b)}) > 5
          /\ Len(results.matched) = 0

DateDiff(e, b) == Abs(accountingData[e].date - bankData[b].date)

NewAutoMatch ==
  /\ Len(results'.matched) = Len(results.matched) + 1
  /\ LastOf(results'.matched).autoMatched

\* C20: the date tolerance is the number of days of difference allowed
\* between the date of an entry and the date of a record: an entry is not
\* auto-matched to a record of its amount whose date differs by more than
\* dateToleranceDays; and an entry whose only candidate is 2 days away
\* (15/01 and 17/01) is auto-matched when the tolerance is 2 or more and is
\* a conflict when it is less than 2.
C20_ToleranceLimitsDates ==
  [][(Visiting /\ OverrideTargets = {}) =>
       /\ NewAutoMatch =>
            DateDiff(idx, LastOf(results'.matched).bank) <= CONFIG.DATE_TOLERANCE_DAYS
       /\ (\E b \in FreeCandidates : FreeCandidates = {b} /\ DateDiff(idx, b) = 2) =>
            IF CONFIG.DATE_TOLERANCE_DAYS >= 2
            THEN NewAutoMatch
            ELSE NewConflict]_vars

(***************************************************************************)
(* Properties of the parser (specification SpecParse).                     *)
(***************************************************************************)
Cell == sheetAcc[1].amount[1]

AllDigits(str) == str # <<>> /\ \A i \in DOMAIN str : str[i] \in Digits

\* an integer part in Spanish format: digits alone, or groups of three
\* digits separated by '.', after a first group of one to three digits
RECURSIVE IsGrouped(_)
IsGrouped(str) ==
  IF Len(str) <= 3 THEN AllDigits(str)
  ELSE /\ str[Len(str) - 3] = "."
       /\ AllDigits(SubSeq(str, Len(str) - 2, Len(str)))
       /\ IsGrouped(SubSeq(str, 1, Len(str) - 4))

IsSpanishInteger(str) == AllDigits(str) \/ (Len(str) > 3 /\ IsGrouped(str))

Unsigned(str) == IF str # <<>> /\ str[1] = "-" THEN Tail(str) ELSE str

CommaAt(str) == {i \in DOMAIN str : str[i] = ","}

IsSpanishFormat(str) ==
  LET body == Unsigned(str)
  IN IF CommaAt(body) = {} THEN IsSpanishInteger(body)
     ELSE /\ Cardinality(CommaAt(body)) = 1
          /\ \E i \in CommaAt(body) :
               /\ IsSpanishInteger(SubSeq(body, 1, i - 1))
               /\ AllDigits(SubSeq(body, i + 1, Len(body)))

\* the value a string in Spanish format denotes, in thousandths
Denoted(str) ==
  LET body == Unsigned(str)
      i == IF CommaAt(body) = {} THEN Len(body) + 1
           ELSE CHOOSE k \in CommaAt(body) : TRUE
      whole == SelectSeq(SubSeq(body, 1, i - 1), LAMBDA ch : ch \in Digits)
      decimals == SubSeq(SubSeq(body, i + 1, Len(body)) \o <<"0", "0", "0">>, 1, 3)
      magnitude == 1000 * DigitsValue(whole) + DigitsValue(decimals)
  IN IF str[1] = "-" THEN -magnitude ELSE magnitude

Parsed == accountingData[1].amount

\* the part of C21 about numbers and strings in Spanish format: a number
\* is returned unchanged and a string in Spanish format gives the value it
\* denotes
C21_SpanishFormatParsed ==
  (Running /\ Len(sheetAcc) = 1) =>
    /\ Cell[1] = "number" => Parsed = Cell[2]
    /\ (Cell[1] = "string" /\ IsSpanishFormat(Cell[2])) => Parsed = Denoted(Cell[2])
    /\ Cell = Str(<<"1", ".", "2", "3", "4", ".", "5", "6", "7", ",", "8", "9">>)
         => Parsed = 1234567890
    /\ Cell = Str(<<"-", "1", ".", "7", "5", "0", ",", "0", "0">>)
         => Parsed = -1750000

\* C21: parseSpanishNumber returns a number unchanged; for a string in
\* Spanish format it returns the value the string denotes; for every other
\* input it returns 0.
C21_ParsesOrZero ==
  (Running /\ Len(sheetAcc) = 1) =>
    /\ Cell[1] = "number" => Parsed = Cell[2]
    /\ Cell[1] = "string" =>
         Parsed = (IF IsSpanishFormat(Cell[2]) THEN Denoted(Cell[2]) ELSE 0)

(***************************************************************************)
(* Properties of the scorer (specification SpecScore).                     *)
(***************************************************************************)
\* what is left of a score when the date component is taken off: 0.7 x the
\* concept similarity
ConceptPart(p) ==
  RSub(p.score, DateScore(DateDiff(p.accounting, p.bank), CONFIG.DATE_TOLERANCE_DAYS))

Norm1(p) == accountingData[p.accounting]._normalized

Norm2(p) == bankData[p.bank]._normalized

Numbers1(p) == accountingData[p.accounting]._numbers

Numbers2(p) == bankData[p.bank]._numbers

\* non-empty, unequal, neither contains the other
Unrelated(p) ==
  /\ Norm1(p) # <<>> /\ Norm2(p) # <<>>
  /\ Norm1(p) # Norm2(p)
  /\ ~includes(Norm1(p), Norm2(p)) /\ ~includes(Norm2(p), Norm1(p))

IsSuffix(long, short) ==
  /\ Len(long) >= 4 /\ Len(short) >= 3 /\ Len(short) <= Len(long)
  /\ SubSeq(long, Len(long) - Len(short) + 1, Len(long)) = short

\* C22: for the entry "Cheque 661112" and its only candidate "CHQ 1112" of
\* the same date the concept similarity is 0.7 and the score is 0.79; in
\* general, when the normalized concepts are non-empty, unequal, neither
\* containing the other, the number lists share no string and a number of
\* one side is a suffix of a number of the other (lengths >= 4 and >= 3),
\* the concept similarity is 0.7.
C22_NumericSuffixRule ==
  Loaded =>
    \A p \in ScoredPairs :
      /\ (/\ accountingData[p.accounting].concept = Cheque661112
          /\ bankData[p.bank].concept = CHQ1112
          /\ DateDiff(p.accounting, p.bank) = 0) => p.score = <<79, 100>>
      /\ (/\ Unrelated(p)
          /\ Range(Numbers1(p)) \cap Range(Numbers2(p)) = {}
          /\ \E n1 \in Range(Numbers1(p)) : \E n2 \in Range(Numbers2(p)) :
               IsSuffix(n1, n2) \/ IsSuffix(n2, n1))
           => ConceptPart(p) = RMul(<<7, 10>>, <<7, 10>>)

C24_CommonNumbers ==
  Loaded =>
    \A p \in ScoredPairs :
      LET common == Range(Numbers1(p)) \cap Range(Numbers2(p))
      IN (Unrelated(p) /\ common # {}) =>
           ConceptPart(p) =
             RMul(<<7, 10>>,
                  RAdd(<<3, 5>>,
                       Rat(3 * Cardinality(common),
                           10 * Max(Len(Numbers1(p)), Len(Numbers2(p))))))

(***************************************************************************)
(* Properties of the overrides stored between two runs (specification      *)
(* SpecResolve).                                                           *)
(***************************************************************************)
\* the second run is over
SecondRunDone == pc \in {"done", "returned"} /\ previous # NULL

\* the overrides the second run read were stored after the first run, each
\* for an entry the first run listed as a conflict and to a record among
\* that entry's candidates
FromCandidates ==
  \A k \in DOMAIN manualMatches :
    /\ k \notin DOMAIN Prev.manualMatches
    /\ \E i \in DOMAIN Prev.results.conflicts :
         LET conflict == Prev.results.conflicts[i]
         IN /\ Prev.accountingIds[conflict.accounting] = k
            /\ \E n \in DOMAIN conflict.candidates :
                 Prev.bankIds[conflict.candidates[n].bankMovement] = manualMatches[k]

PairwiseDistinct ==
  \A k1, k2 \in DOMAIN manualMatches :
    k1 # k2 => manualMatches[k1] # manualMatches[k2]

ManuallyMatched(k) ==
  \E i \in DOMAIN results.matched :
    /\ results.matched[i].manualMatch
    /\ accountingData[results.matched[i].accounting].id = k
    /\ bankData[results.matched[i].bank].id = manualMatches[k]

\* C25: if a run lists some entries as conflicts and overrides are then
\* stored that map some of those entries to pairwise distinct records, each
\* from the entry's own candidate list, the next run over the same rows and
\* configuration matches every one of those entries manually to its chosen
\* record.
C25_OverridesApplied ==
  (SecondRunDone /\ FromCandidates /\ PairwiseDistinct) =>
    \A k \in DOMAIN manualMatches : ManuallyMatched(k)

\* the same for a single stored override
C25_OneOverrideApplied ==
  (SecondRunDone /\ FromCandidates /\ Cardinality(DOMAIN manualMatches) = 1) =>
    \A k \in DOMAIN manualMatches : ManuallyMatched(k)

C25_Precondition ==
  /\ SecondRunDone /\ FromCandidates /\ PairwiseDistinct
  /\ Cardinality(DOMAIN manualMatches) = 2
  /\ \A k \in DOMAIN manualMatches : ManuallyMatched(k)

(***************************************************************************)
(* Properties of resolveConflict among the batch calls (specification      *)
(* SpecConcurrent).                                                        *)
(***************************************************************************)
Holds(map, k, v) == k \in DOMAIN map /\ map[k] = v

\* call c is the one batch call that wrote: it returned success, every
\* other call returned a failure, and none of its pairs is for the entry of
\* the resolveConflict call
OnlyBatch(c) ==
  /\ bpc[c] = "done" /\ result[c] = Success(Cardinality(DOMAIN uniqueMatches[c]))
  /\ \A d \in Calls \ {c} : bpc[d] = "done" /\ result[d] # Pending /\ ~result[d].success
  /\ rMatch.accountingId \notin DOMAIN uniqueMatches[c]

\* C26: for any interleaving of resolveConflict(e1, r1) with a concurrent
\* resolveConflictsBatch call whose pairs are all for entries other than e1,
\* once both have returned success the stored map contains e1 -> r1 and
\* every pair of the batch.
C26_NoLostUpdate ==
  \A c \in Calls :
    (rpc = "done" /\ OnlyBatch(c)) =>
      /\ Holds(store, rMatch.accountingId, rMatch.bankId)
      /\ \A k \in DOMAIN uniqueMatches[c] : Holds(store, k, uniqueMatches[c][k])

(***************************************************************************)
(* Properties of the candidates in the final result.                       *)
(***************************************************************************)
RunDone == pc \in {"done", "returned"}

\* C27: in the final result no record listed among the candidates of a
\* conflict is also the record of a match: every candidate is in the list
\* of unmatched records.
C27_CandidatesUnconsumed ==
  RunDone =>
    \A i \in DOMAIN results.conflicts :
      \A k \in DOMAIN results.conflicts[i].candidates :
        LET record == results.conflicts[i].candidates[k].bankMovement
        IN /\ record \notin MatchedRecords
           /\ record \in Range(results.unmatchedBank)

\* what holds: a candidate is unconsumed when its conflict is listed
C27_UnconsumedWhenListed ==
  [][\A i \in DOMAIN results'.conflicts \ DOMAIN results.conflicts :
       \A k \in DOMAIN results'.conflicts[i].candidates :
         ~bankData[results'.conflicts[i].candidates[k].bankMovement].matched]_vars

====
